---- MODULE Spec2Model ----
(***************************************************************************)
(* Configuration of the Prometheus remote write exporter                   *)
(* (exporter/prometheusremotewriteexporter/config.go): the Config record,  *)
(* the PermissiveLabelSanitization feature gate registered by init(), and  *)
(* Config.Validate, placed in the life of one collector process:           *)
(*   package initialisation -> main -> configuration loaded -> validated   *)
(*   -> exporter started | start-up aborted.                               *)
(***************************************************************************)
EXTENDS Integers, FiniteSets, Sequences, TLC

(* ------------------------------ bounds -------------------------------- *)

\* RemoteWriteQueue.QueueSize ranges over -MaxNegative .. MaxQueueSize
MaxQueueSize == 1
\* RemoteWriteQueue.NumConsumers ranges over -MaxNegative .. MaxNumConsumers
MaxNumConsumers == 1
\* how far below zero the two Go ints are taken
MaxNegative == 1
\* how many times Validate is called on the loaded configuration
MaxCalls == 2

(* --------------------------- the Config type -------------------------- *)

\* values of the string fields: the empty string and one non-empty value each
HeaderValues == {"", "X-Scope-OrgID"}
QueryParamValues == {"", "tenant"}
FromLabelValues == {"", "tenant_id"}
DefaultTenantValues == {"", "anonymous"}
NamespaceValues == {"", "otel"}
\* map[string]string as a set of <<key, value>> pairs
ExternalLabelsValues == {{}, {<<"__replica__", "r1">>}}
\* *WALConfig: {} is the nil pointer, a singleton is a pointer to that value
WALValues == {{}, {[Directory |-> "/var/wal"]}}

RemoteWriteQueue ==
    [Enabled : BOOLEAN,
     QueueSize : (0 - MaxNegative) .. MaxQueueSize,
     NumConsumers : (0 - MaxNegative) .. MaxNumConsumers]

MultiTenancy ==
    [Enabled : BOOLEAN,
     Header : HeaderValues,
     QueryParam : QueryParamValues,
     FromLabel : FromLabelValues,
     DefaultTenant : DefaultTenantValues]

Config ==
    [sanitizeLabel : BOOLEAN,
     Namespace : NamespaceValues,
     RemoteWriteQueue : RemoteWriteQueue,
     MultiTenancy : MultiTenancy,
     ExternalLabels : ExternalLabelsValues,
     WAL : WALValues]

\* the Go zero value of Config
ZeroConfig ==
    [sanitizeLabel |-> FALSE,
     Namespace |-> "",
     RemoteWriteQueue |-> [Enabled |-> FALSE, QueueSize |-> 0, NumConsumers |-> 0],
     MultiTenancy |-> [Enabled |-> FALSE, Header |-> "", QueryParam |-> "",
                       FromLabel |-> "", DefaultTenant |-> ""],
     ExternalLabels |-> {},
     WAL |-> {}]

(* --------------------------- the feature gate ------------------------- *)

\* the gate with its default switched on
dropSanitizationGate_EnabledByDefault ==
    [ID |-> "exporter.prometheusremotewrite.PermissiveLabelSanitization",
     Enabled |-> TRUE,
     Description |-> "Controls whether to change labels starting with '_' to 'key_'"]

dropSanitizationGate ==
    [ID |-> "exporter.prometheusremotewrite.PermissiveLabelSanitization",
     Enabled |-> FALSE,
     Description |-> "Controls whether to change labels starting with '_' to 'key_'"]

\* gates another package of the same process may try to register under the same ID
OtherGates ==
    {[ID |-> dropSanitizationGate.ID, Enabled |-> e, Description |-> "duplicate"] :
        e \in BOOLEAN}

(* ------------------------------ errors -------------------------------- *)

\* the nil error
NilError == "<nil>"
\* result before Validate has been called
Unvalidated == "<unvalidated>"

\* fmt.Errorf on a format without verbs: an error whose text is the format
Errorf(format) == format

ErrQueueSizeNegative == "remote write queue size can't be negative"
ErrZeroSizeQueue == "a 0 size queue will drop all the data"
ErrNumConsumersNegative == "remote write consumer number can't be negative"
ErrHeaderOrQueryParam == "one of multi_tenancy header or query_param should be set"
ErrFromLabel == "from_label should be set to find tenant name"

(* Variants of Validate, each with one defect; used to show that a property *)
(* below depends on the code of Validate.                                   *)

\* checks 2 and 3 in the opposite order
Validate_Swap23(cfg) ==
    IF cfg.RemoteWriteQueue.QueueSize < 0
    THEN Errorf(ErrQueueSizeNegative)
    ELSE IF cfg.RemoteWriteQueue.NumConsumers < 0
    THEN Errorf(ErrNumConsumersNegative)
    ELSE IF cfg.RemoteWriteQueue.Enabled /\ cfg.RemoteWriteQueue.QueueSize = 0
    THEN Errorf(ErrZeroSizeQueue)
    ELSE IF cfg.MultiTenancy.Enabled /\ cfg.MultiTenancy.Header = ""
            /\ cfg.MultiTenancy.QueryParam = ""
    THEN Errorf(ErrHeaderOrQueryParam)
    ELSE IF cfg.MultiTenancy.Enabled /\ cfg.MultiTenancy.FromLabel = ""
    THEN Errorf(ErrFromLabel)
    ELSE NilError

\* check 4 with || between the two emptiness tests
Validate_HeaderOr(cfg) ==
    IF cfg.RemoteWriteQueue.QueueSize < 0
    THEN Errorf(ErrQueueSizeNegative)
    ELSE IF cfg.RemoteWriteQueue.Enabled /\ cfg.RemoteWriteQueue.QueueSize = 0
    THEN Errorf(ErrZeroSizeQueue)
    ELSE IF cfg.RemoteWriteQueue.NumConsumers < 0
    THEN Errorf(ErrNumConsumersNegative)
    ELSE IF cfg.MultiTenancy.Enabled /\ (cfg.MultiTenancy.Header = ""
                                          \/ cfg.MultiTenancy.QueryParam = "")
    THEN Errorf(ErrHeaderOrQueryParam)
    ELSE IF cfg.MultiTenancy.Enabled /\ cfg.MultiTenancy.FromLabel = ""
    THEN Errorf(ErrFromLabel)
    ELSE NilError

\* checks 3 and 4 in the opposite order
Validate_Swap34(cfg) ==
    IF cfg.RemoteWriteQueue.QueueSize < 0
    THEN Errorf(ErrQueueSizeNegative)
    ELSE IF cfg.RemoteWriteQueue.Enabled /\ cfg.RemoteWriteQueue.QueueSize = 0
    THEN Errorf(ErrZeroSizeQueue)
    ELSE IF cfg.MultiTenancy.Enabled /\ cfg.MultiTenancy.Header = ""
            /\ cfg.MultiTenancy.QueryParam = ""
    THEN Errorf(ErrHeaderOrQueryParam)
    ELSE IF cfg.RemoteWriteQueue.NumConsumers < 0
    THEN Errorf(ErrNumConsumersNegative)
    ELSE IF cfg.MultiTenancy.Enabled /\ cfg.MultiTenancy.FromLabel = ""
    THEN Errorf(ErrFromLabel)
    ELSE NilError

\* checks 4 and 5 in the opposite order
Validate_Swap45(cfg) ==
    IF cfg.RemoteWriteQueue.QueueSize < 0
    THEN Errorf(ErrQueueSizeNegative)
    ELSE IF cfg.RemoteWriteQueue.Enabled /\ cfg.RemoteWriteQueue.QueueSize = 0
    THEN Errorf(ErrZeroSizeQueue)
    ELSE IF cfg.RemoteWriteQueue.NumConsumers < 0
    THEN Errorf(ErrNumConsumersNegative)
    ELSE IF cfg.MultiTenancy.Enabled /\ cfg.MultiTenancy.FromLabel = ""
    THEN Errorf(ErrFromLabel)
    ELSE IF cfg.MultiTenancy.Enabled /\ cfg.MultiTenancy.Header = ""
            /\ cfg.MultiTenancy.QueryParam = ""
    THEN Errorf(ErrHeaderOrQueryParam)
    ELSE NilError

\* check 5 only made when the header is not set
Validate_FromLabelOnlyWithoutHeader(cfg) ==
    IF cfg.RemoteWriteQueue.QueueSize < 0
    THEN Errorf(ErrQueueSizeNegative)
    ELSE IF cfg.RemoteWriteQueue.Enabled /\ cfg.RemoteWriteQueue.QueueSize = 0
    THEN Errorf(ErrZeroSizeQueue)
    ELSE IF cfg.RemoteWriteQueue.NumConsumers < 0
    THEN Errorf(ErrNumConsumersNegative)
    ELSE IF cfg.MultiTenancy.Enabled /\ cfg.MultiTenancy.Header = ""
            /\ cfg.MultiTenancy.QueryParam = ""
    THEN Errorf(ErrHeaderOrQueryParam)
    ELSE IF cfg.MultiTenancy.Enabled /\ cfg.MultiTenancy.Header = ""
            /\ cfg.MultiTenancy.FromLabel = ""
    THEN Errorf(ErrFromLabel)
    ELSE NilError

\* check 1 only made when the queue is enabled
Validate_NegativeOnlyIfEnabled(cfg) ==
    IF cfg.RemoteWriteQueue.Enabled /\ cfg.RemoteWriteQueue.QueueSize < 0
    THEN Errorf(ErrQueueSizeNegative)
    ELSE IF cfg.RemoteWriteQueue.Enabled /\ cfg.RemoteWriteQueue.QueueSize = 0
    THEN Errorf(ErrZeroSizeQueue)
    ELSE IF cfg.RemoteWriteQueue.NumConsumers < 0
    THEN Errorf(ErrNumConsumersNegative)
    ELSE IF cfg.MultiTenancy.Enabled /\ cfg.MultiTenancy.Header = ""
            /\ cfg.MultiTenancy.QueryParam = ""
    THEN Errorf(ErrHeaderOrQueryParam)
    ELSE IF cfg.MultiTenancy.Enabled /\ cfg.MultiTenancy.FromLabel = ""
    THEN Errorf(ErrFromLabel)
    ELSE NilError

\* check 2 made whether or not the queue is enabled
Validate_ZeroAlways(cfg) ==
    IF cfg.RemoteWriteQueue.QueueSize < 0
    THEN Errorf(ErrQueueSizeNegative)
    ELSE IF cfg.RemoteWriteQueue.QueueSize = 0
    THEN Errorf(ErrZeroSizeQueue)
    ELSE IF cfg.RemoteWriteQueue.NumConsumers < 0
    THEN Errorf(ErrNumConsumersNegative)
    ELSE IF cfg.MultiTenancy.Enabled /\ cfg.MultiTenancy.Header = ""
            /\ cfg.MultiTenancy.QueryParam = ""
    THEN Errorf(ErrHeaderOrQueryParam)
    ELSE IF cfg.MultiTenancy.Enabled /\ cfg.MultiTenancy.FromLabel = ""
    THEN Errorf(ErrFromLabel)
    ELSE NilError

\* check 5 also asks for a default tenant
Validate_DefaultTenant(cfg) ==
    IF cfg.RemoteWriteQueue.QueueSize < 0
    THEN Errorf(ErrQueueSizeNegative)
    ELSE IF cfg.RemoteWriteQueue.Enabled /\ cfg.RemoteWriteQueue.QueueSize = 0
    THEN Errorf(ErrZeroSizeQueue)
    ELSE IF cfg.RemoteWriteQueue.NumConsumers < 0
    THEN Errorf(ErrNumConsumersNegative)
    ELSE IF cfg.MultiTenancy.Enabled /\ cfg.MultiTenancy.Header = ""
            /\ cfg.MultiTenancy.QueryParam = ""
    THEN Errorf(ErrHeaderOrQueryParam)
    ELSE IF cfg.MultiTenancy.Enabled /\ (cfg.MultiTenancy.FromLabel = ""
                                          \/ cfg.MultiTenancy.DefaultTenant = "")
    THEN Errorf(ErrFromLabel)
    ELSE NilError

(* ------------------------------ Validate ------------------------------ *)

Validate(cfg) ==
    IF cfg.RemoteWriteQueue.QueueSize < 0
    THEN Errorf(ErrQueueSizeNegative)
    ELSE IF cfg.RemoteWriteQueue.Enabled /\ cfg.RemoteWriteQueue.QueueSize = 0
    THEN Errorf(ErrZeroSizeQueue)
    ELSE IF cfg.RemoteWriteQueue.NumConsumers < 0
    THEN Errorf(ErrNumConsumersNegative)
    ELSE IF cfg.MultiTenancy.Enabled /\ cfg.MultiTenancy.Header = ""
            /\ cfg.MultiTenancy.QueryParam = ""
    THEN Errorf(ErrHeaderOrQueryParam)
    ELSE IF cfg.MultiTenancy.Enabled /\ cfg.MultiTenancy.FromLabel = ""
    THEN Errorf(ErrFromLabel)
    ELSE NilError

(* ------------------------------- state -------------------------------- *)

VARIABLES
    phase,      \* "init", "main", "loaded", "started", "aborted", "panic"
    registry,   \* the process-wide gate registry: gate ID -> gate
    initDone,   \* this package's init() has returned
    otherDone,  \* the other package's registration has been attempted
    attempts,   \* registrations attempted under dropSanitizationGate.ID
    cfg,        \* the *Config the exporter holds
    loaded,     \* the configuration as the loader populated it
    result,     \* what the last call of Validate returned
    calls       \* number of calls of Validate

vars == <<phase, registry, initDone, otherDone, attempts, cfg, loaded, result, calls>>

Init ==
    /\ phase = "init"
    /\ registry = [id \in {} |-> dropSanitizationGate]
    /\ initDone = FALSE
    /\ otherDone = FALSE
    /\ attempts = 0
    /\ cfg = ZeroConfig
    /\ loaded = ZeroConfig
    /\ result = Unvalidated
    /\ calls = 0

(* ---------------------------- the registry ---------------------------- *)

\* Registry.MustRegister: panics when the ID is already registered, adds the
\* gate otherwise
MustRegister(gate) ==
    /\ attempts' = attempts + 1
    /\ IF gate.ID \in DOMAIN registry
       THEN /\ phase' = "panic"
            /\ registry' = registry
       ELSE /\ phase' = phase
            /\ registry' = [id \in DOMAIN registry \cup {gate.ID} |->
                              IF id = gate.ID THEN gate ELSE registry[id]]

\* func init()
init ==
    /\ phase = "init"
    /\ ~initDone
    /\ MustRegister(dropSanitizationGate)
    /\ initDone' = (phase' # "panic")
    /\ UNCHANGED <<otherDone, cfg, loaded, result, calls>>

\* another package's initialiser registering a gate under the same ID
RegisterOther ==
    /\ phase = "init"
    /\ ~otherDone
    /\ \E gate \in OtherGates : MustRegister(gate)
    /\ otherDone' = TRUE
    /\ UNCHANGED <<initDone, cfg, loaded, result, calls>>

\* all package initialisers have returned: main starts
Main ==
    /\ phase = "init"
    /\ initDone
    /\ phase' = "main"
    /\ UNCHANGED <<registry, initDone, otherDone, attempts, cfg, loaded, result, calls>>

\* Registry.Apply: the operator switches the gate on or off
Apply ==
    /\ phase \in {"main", "loaded"}
    /\ dropSanitizationGate.ID \in DOMAIN registry
    /\ \E e \in BOOLEAN :
         /\ registry[dropSanitizationGate.ID].Enabled # e
         /\ registry' = [registry EXCEPT ![dropSanitizationGate.ID].Enabled = e]
    /\ UNCHANGED <<phase, initDone, otherDone, attempts, cfg, loaded, result, calls>>

(* ------------------------ loading and validating ---------------------- *)

\* the loader populates the Config from the configuration document
Load ==
    /\ phase = "main"
    /\ \E c \in Config :
         /\ cfg' = c
         /\ loaded' = c
    /\ phase' = "loaded"
    /\ UNCHANGED <<registry, initDone, otherDone, attempts, result, calls>>

\* a call cfg.Validate() that also resets the size of a disabled queue
DoValidate_Normalising ==
    /\ phase = "loaded"
    /\ calls < MaxCalls
    /\ result' = Validate(cfg)
    /\ calls' = calls + 1
    /\ cfg' = IF cfg.RemoteWriteQueue.Enabled
              THEN cfg
              ELSE [cfg EXCEPT !.RemoteWriteQueue.QueueSize = 0]
    /\ UNCHANGED <<phase, registry, initDone, otherDone, attempts, loaded>>

\* a call cfg.Validate()
DoValidate ==
    /\ phase = "loaded"
    /\ calls < MaxCalls
    /\ result' = Validate(cfg)
    /\ calls' = calls + 1
    /\ UNCHANGED <<phase, registry, initDone, otherDone, attempts, cfg, loaded>>

\* Validate returned nil: the configuration goes to the collaborators
Start ==
    /\ phase = "loaded"
    /\ result = NilError
    /\ phase' = "started"
    /\ UNCHANGED <<registry, initDone, otherDone, attempts, cfg, loaded, result, calls>>

\* Validate returned an error: start-up is aborted
Abort ==
    /\ phase = "loaded"
    /\ result \notin {Unvalidated, NilError}
    /\ phase' = "aborted"
    /\ UNCHANGED <<registry, initDone, otherDone, attempts, cfg, loaded, result, calls>>

Next ==
    \/ init
    \/ RegisterOther
    \/ Main
    \/ Apply
    \/ Load
    \/ DoValidate
    \/ Start
    \/ Abort

Spec == Init /\ [][Next]_vars

TypeOK ==
    /\ phase \in {"init", "main", "loaded", "started", "aborted", "panic"}
    /\ cfg \in Config
    /\ calls \in 0 .. MaxCalls

(* ============================ properties ============================== *)

\* Validate has been called on the loaded configuration
Validated == calls > 0

\* the five checks of the validator, in their order, each with its message
Checks(c) ==
    << [fails |-> c.RemoteWriteQueue.QueueSize < 0,
        msg |-> "remote write queue size can't be negative"],
       [fails |-> c.RemoteWriteQueue.Enabled /\ c.RemoteWriteQueue.QueueSize = 0,
        msg |-> "a 0 size queue will drop all the data"],
       [fails |-> c.RemoteWriteQueue.NumConsumers < 0,
        msg |-> "remote write consumer number can't be negative"],
       [fails |-> c.MultiTenancy.Enabled /\ c.MultiTenancy.Header = ""
                  /\ c.MultiTenancy.QueryParam = "",
        msg |-> "one of multi_tenancy header or query_param should be set"],
       [fails |-> c.MultiTenancy.Enabled /\ c.MultiTenancy.FromLabel = "",
        msg |-> "from_label should be set to find tenant name"] >>

Failing(c) == {i \in 1 .. Len(Checks(c)) : Checks(c)[i].fails}

\* the message of the first failing check, the nil error when none fails
FirstFailing(c) ==
    IF Failing(c) = {}
    THEN NilError
    ELSE Checks(c)[CHOOSE i \in Failing(c) : \A j \in Failing(c) : i <= j].msg

\* the queue fields pass checks 1 to 3
QueuePasses(c) ==
    /\ c.RemoteWriteQueue.QueueSize >= 0
    /\ ~(c.RemoteWriteQueue.Enabled /\ c.RemoteWriteQueue.QueueSize = 0)
    /\ c.RemoteWriteQueue.NumConsumers >= 0

\* C1: once Validate has been called, its result is the message of the first
\* of the five checks, taken in their fixed order, that the configuration
\* fails, and the nil error when it fails none; never the message of a later
\* failing check and never another error.
C1_FirstFailingCheck ==
    Validated => result = FirstFailing(cfg)

\* C1 witness: checks 3, 4 and 5 all fail and the message of check 3 is returned
C1_Witness ==
    /\ Validated
    /\ Failing(cfg) = {3, 4, 5}
    /\ result = "remote write consumer number can't be negative"

\* the conditions under which the specification says a configuration is valid
Accepts(c) ==
    /\ c.RemoteWriteQueue.QueueSize >= 0
    /\ c.RemoteWriteQueue.NumConsumers >= 0
    /\ (c.RemoteWriteQueue.Enabled => c.RemoteWriteQueue.QueueSize >= 1)
    /\ (c.MultiTenancy.Enabled =>
          /\ c.MultiTenancy.FromLabel # ""
          /\ (c.MultiTenancy.Header # "" \/ c.MultiTenancy.QueryParam # ""))

\* C2: Validate returns the nil error if and only if queueSize >= 0,
\* numConsumers >= 0, an enabled queue has queueSize >= 1 and enabled
\* multi-tenancy has a from-label and one of header and query parameter; the
\* all-zero default configuration is accepted.
C2_AcceptsIff ==
    Validated =>
        /\ (result = NilError) <=> Accepts(cfg)
        /\ (/\ cfg.RemoteWriteQueue = [Enabled |-> FALSE, QueueSize |-> 0,
                                       NumConsumers |-> 0]
            /\ ~cfg.MultiTenancy.Enabled) => result = NilError

\* C2 witness: a configuration with the queue and multi-tenancy both enabled
\* has been accepted and the exporter started with only the query parameter set
C2_Witness ==
    /\ phase = "started"
    /\ cfg.RemoteWriteQueue.Enabled
    /\ cfg.MultiTenancy.Enabled
    /\ cfg.MultiTenancy.Header = ""
    /\ result = NilError

\* C3 as stated: every configuration with numConsumers < 0 is rejected with
\* the negative-consumer message, whatever its queue size.
C3_Original ==
    (Validated /\ cfg.RemoteWriteQueue.NumConsumers < 0)
        => result = "remote write consumer number can't be negative"

\* C3: every configuration with numConsumers < 0 whose queue size passes
\* checks 1 and 2 (queueSize >= 0, and not an enabled queue of size 0) is
\* rejected with the negative-consumer message.
C3_Amended ==
    (/\ Validated
     /\ cfg.RemoteWriteQueue.NumConsumers < 0
     /\ cfg.RemoteWriteQueue.QueueSize >= 0
     /\ ~(cfg.RemoteWriteQueue.Enabled /\ cfg.RemoteWriteQueue.QueueSize = 0))
        => result = "remote write consumer number can't be negative"

\* C3 witness: numConsumers < 0 with a valid queue size and multi-tenancy
\* failing too, rejected with the negative-consumer message
C3_Witness ==
    /\ Validated
    /\ cfg.RemoteWriteQueue.NumConsumers < 0
    /\ cfg.RemoteWriteQueue.Enabled
    /\ cfg.RemoteWriteQueue.QueueSize >= 1
    /\ cfg.MultiTenancy.Enabled
    /\ cfg.MultiTenancy.Header = ""
    /\ cfg.MultiTenancy.QueryParam = ""
    /\ result = "remote write consumer number can't be negative"

\* C4 as stated: every configuration with multi-tenancy enabled and neither
\* header nor query parameter is rejected with the header-or-query-param
\* message, whatever its queue fields.
C4_Original ==
    (/\ Validated
     /\ cfg.MultiTenancy.Enabled
     /\ cfg.MultiTenancy.Header = ""
     /\ cfg.MultiTenancy.QueryParam = "")
        => result = "one of multi_tenancy header or query_param should be set"

\* C4: every configuration with multi-tenancy enabled and neither header nor
\* query parameter, whose queue fields pass checks 1 to 3, is rejected with
\* the header-or-query-param message, whatever its from-label.
C4_Amended ==
    (/\ Validated
     /\ cfg.MultiTenancy.Enabled
     /\ cfg.MultiTenancy.Header = ""
     /\ cfg.MultiTenancy.QueryParam = ""
     /\ QueuePasses(cfg))
        => result = "one of multi_tenancy header or query_param should be set"

\* C4 witness: header, query parameter and from-label all empty, the queue
\* valid, rejected with the header-or-query-param message
C4_Witness ==
    /\ Validated
    /\ cfg.MultiTenancy.Enabled
    /\ cfg.MultiTenancy.Header = ""
    /\ cfg.MultiTenancy.QueryParam = ""
    /\ cfg.MultiTenancy.FromLabel = ""
    /\ QueuePasses(cfg)
    /\ result = "one of multi_tenancy header or query_param should be set"

\* C5 as stated: every configuration with multi-tenancy enabled, a header or
\* a query parameter, and no from-label is rejected with the from-label
\* message, whatever its queue fields.
C5_Original ==
    (/\ Validated
     /\ cfg.MultiTenancy.Enabled
     /\ (cfg.MultiTenancy.Header # "" \/ cfg.MultiTenancy.QueryParam # "")
     /\ cfg.MultiTenancy.FromLabel = "")
        => result = "from_label should be set to find tenant name"

\* C5: every configuration with multi-tenancy enabled, a header or a query
\* parameter, and no from-label, whose queue fields pass checks 1 to 3, is
\* rejected with the from-label message.
C5_Amended ==
    (/\ Validated
     /\ cfg.MultiTenancy.Enabled
     /\ (cfg.MultiTenancy.Header # "" \/ cfg.MultiTenancy.QueryParam # "")
     /\ cfg.MultiTenancy.FromLabel = ""
     /\ QueuePasses(cfg))
        => result = "from_label should be set to find tenant name"

\* C5 witness: a header set, no from-label, the queue enabled and valid,
\* rejected with the from-label message
C5_Witness ==
    /\ Validated
    /\ cfg.MultiTenancy.Enabled
    /\ cfg.MultiTenancy.Header # ""
    /\ cfg.MultiTenancy.FromLabel = ""
    /\ cfg.RemoteWriteQueue.Enabled
    /\ QueuePasses(cfg)
    /\ result = "from_label should be set to find tenant name"

C7_ZeroSizeQueue ==
    Validated =>
        /\ (cfg.RemoteWriteQueue.Enabled /\ cfg.RemoteWriteQueue.QueueSize = 0)
              => result = "a 0 size queue will drop all the data"
        /\ (~cfg.RemoteWriteQueue.Enabled /\ cfg.RemoteWriteQueue.QueueSize = 0)
              => result # "a 0 size queue will drop all the data"

\* C7 witness: an enabled queue of size 0 with numConsumers negative and
\* multi-tenancy failing, rejected with the zero-size-queue message
C7_Witness ==
    /\ Validated
    /\ cfg.RemoteWriteQueue.Enabled
    /\ cfg.RemoteWriteQueue.QueueSize = 0
    /\ cfg.RemoteWriteQueue.NumConsumers < 0
    /\ cfg.MultiTenancy.Enabled
    /\ cfg.MultiTenancy.FromLabel = ""
    /\ result = "a 0 size queue will drop all the data"

GateID == "exporter.prometheusremotewrite.PermissiveLabelSanitization"

\* C8: init() registers the gate PermissiveLabelSanitization, disabled, and
\* once init() has returned the gate stays registered; a registration under an
\* identifier already in the registry fails (the process panics) and leaves
\* the registry as it was; Validate is never called in a process that
\* panicked and returns nothing but nil or one of its five messages.
C8_GateRegisteredOnce ==
    /\ [](initDone => GateID \in DOMAIN registry)
    /\ [][(~initDone /\ initDone') =>
             /\ GateID \notin DOMAIN registry
             /\ GateID \in DOMAIN registry'
             /\ registry'[GateID].ID = GateID
             /\ registry'[GateID].Enabled = FALSE]_vars
    /\ [][(attempts' # attempts /\ GateID \in DOMAIN registry) =>
             /\ registry' = registry
             /\ phase' = "panic"
             /\ initDone' = initDone]_vars
    /\ [](phase = "panic" => (calls = 0 /\ result = Unvalidated))
    /\ [](result \in {Unvalidated, NilError} \cup
                     {Checks(cfg)[i].msg : i \in 1 .. Len(Checks(cfg))})

\* C8 witness: init() registered the gate, a second registration under the
\* same identifier panicked, and the gate is still the disabled one
C8_Witness ==
    /\ phase = "panic"
    /\ initDone
    /\ attempts = 2
    /\ GateID \in DOMAIN registry
    /\ registry[GateID].Enabled = FALSE
    /\ registry[GateID].Description # "duplicate"

\* C9: a call of Validate, accepting or rejecting, leaves every field of the
\* configuration and the gate registry as they were, so the configuration the
\* started exporter holds is the one the loader populated.
C9_ValidateNoSideEffects ==
    /\ [][calls' # calls =>
             /\ cfg' = cfg
             /\ cfg' = loaded
             /\ registry' = registry]_vars
    /\ [](phase \in {"started", "aborted"} => cfg = loaded)

\* C9 witness: a configuration that is not the zero value, with a disabled
\* queue of non-zero size, validated twice and handed to the started exporter
C9_Witness ==
    /\ phase = "started"
    /\ calls = 2
    /\ ~cfg.RemoteWriteQueue.Enabled
    /\ cfg.RemoteWriteQueue.QueueSize > 0
    /\ cfg.WAL # {}
    /\ cfg = loaded

\* the configuration c with the fields Validate is said not to read replaced
OtherFields(c, dt, ns, el, wal, sl) ==
    [c EXCEPT !.MultiTenancy.DefaultTenant = dt,
              !.Namespace = ns,
              !.ExternalLabels = el,
              !.WAL = wal,
              !.sanitizeLabel = sl]

\* C10: the result of Validate is the result for every configuration with the
\* same queue.enabled, queueSize, numConsumers, multiTenancy.enabled, header,
\* queryParam and fromLabel, whatever its defaultTenant, namespace,
\* externalLabels, WAL and sanitizeLabel; and a further call on the same
\* configuration returns the same result, whatever the gate is set to by then.
C10_DependsOnSevenFields ==
    /\ [](Validated =>
            \A dt \in DefaultTenantValues, ns \in NamespaceValues,
               el \in ExternalLabelsValues, wal \in WALValues, sl \in BOOLEAN :
                 Validate(OtherFields(cfg, dt, ns, el, wal, sl)) = result)
    /\ [][(calls > 0 /\ calls' # calls) => result' = result]_vars

\* C10 witness: multi-tenancy enabled with an empty defaultTenant, accepted
\* on a second call made with the gate switched on
C10_Witness ==
    /\ calls = 2
    /\ GateID \in DOMAIN registry
    /\ registry[GateID].Enabled
    /\ cfg.MultiTenancy.Enabled
    /\ cfg.MultiTenancy.DefaultTenant = ""
    /\ result = NilError

====
